---------------------------- MODULE Spec2Model ----------------------------
(***************************************************************************)
(* A model of SN.py: the undirected Graph with its analyses (breadth-first *)
(* search, connected components, degree centrality, common neighbours,     *)
(* link prediction) and the FlowNetwork with Edmonds-Karp maximum flow and *)
(* the bipartite matching-network builder.                                 *)
(*                                                                         *)
(* Python containers are modelled by what the code can observe of them:    *)
(*  - a dict is a function whose DOMAIN is its key set; Graph.adj also     *)
(*    keeps its key insertion order (nodes() lists the keys in it);        *)
(*  - a defaultdict inserts the default under a missing key when it is     *)
(*    READ with [] (TouchAdj / TouchOrder model that insertion);           *)
(*  - a set is iterated in an order the language does not fix: every       *)
(*    operation that iterates neighbour sets takes the order as a          *)
(*    permutation of the nodes, chosen nondeterministically per call.      *)
(***************************************************************************)
EXTENDS Integers, Sequences, FiniteSets, TLC

Min2(x, y) == IF x <= y THEN x ELSE y

\* ------------------------------------------------------ bounds, inputs ----
MaxEdgeCalls == 3   \* Graph.add_edge calls in a run of Spec
MaxTopK == 3        \* link_prediction is called with top_k in 0..MaxTopK
MaxLines == 9       \* lines of EdgeLines a loaded edge-list file may hold

\* the users of the interleaved runs (Spec)
Nodes == {"a", "b", "c"}

\* the edge list the loaded files are drawn from (SpecAnalysis): a file is a
\* subsequence of its first MaxLines lines.  It holds a reversed duplicate
\* (line 6), a self-loop (line 7), a triangle (lines 2, 3, 9) and a cycle of
\* five (lines 1, 3, 9, 4, 8).
EdgeLines == << <<"e", "c">>, <<"a", "c">>, <<"b", "c">>, <<"a", "d">>,
                <<"b", "d">>, <<"c", "a">>, <<"d", "d">>, <<"d", "e">>,
                <<"a", "b">>, <<"e", "e">> >>

NumLines == Min2(MaxLines, Len(EdgeLines))

\* the users of the loaded files
FileNodes == {"a", "b", "c", "d", "e"}

MaxArcs == 5        \* lines of ArcPool a flow network may be built from
MaxCap == 2         \* FlowNetwork.add_edge is called with cap in 0..MaxCap
MaxSide == 2        \* nodes on each side of a matching problem
MaxPairs == 3       \* permissible pairs listed in a matching problem

\* the arcs the flow networks are built from (SpecFlow): a network is built
\* by add_edge calls on a subsequence of the first MaxArcs arcs, each with a
\* capacity in 0..MaxCap.  The pool holds an antiparallel pair (3, 4), a
\* repeated arc (3, 5) and a self-loop (6); node "b" is in no arc of the
\* first seven, so it is a node never registered in the network.
ArcPool == << <<"s", "a">>, <<"a", "t">>, <<"s", "t">>, <<"t", "s">>,
              <<"s", "t">>, <<"a", "a">>, <<"t", "a">>, <<"s", "b">>, <<"b", "t">> >>

NumArcs == Min2(MaxArcs, Len(ArcPool))

\* the nodes edmonds_karp is called with on those networks
FlowNodes == {"s", "a", "b", "t"}

\* the nodes of the matching problems: the first nl of LeftNames against the
\* first nr of RightNames
LeftNames == <<"l1", "l2", "l3", "l4">>
RightNames == <<"r1", "r2", "r3", "r4">>
NumSide == Min2(MaxSide, Len(LeftNames))

\* float('inf'), which is no capacity: capacities are integers >= 0
Inf == -1

\* the orders in which a set of nodes drawn from S may be iterated: the
\* permutations of S
SetOrders(S) ==
    {p \in [1..Cardinality(S) -> S] : \A i, j \in 1..Cardinality(S) : p[i] = p[j] => i = j}

None == "None"

VARIABLES
    adj,        \* Graph.adj: key -> set of neighbours
    nodeOrder,  \* the keys of Graph.adj in insertion order (Graph.nodes())
    added,      \* history: the (u, v) of every Graph.add_edge call made
    numCalls,   \* history: how many Graph.add_edge calls were made
    lineNo,     \* load_facebook_graph: the line of EdgeLines read last
    last        \* the last operation called, its arguments and what it returned

gvars == <<adj, nodeOrder, added, numCalls, lineNo, last>>

VARIABLES
    capacity,   \* FlowNetwork.capacity: (u, v) -> residual capacity
    fadj,       \* FlowNetwork.adj: node -> list of neighbours
    arcNo,      \* the line of ArcPool the network was last extended with
    match,      \* history: the matching problem the network was built for
    pc,         \* edmonds_karp: "build" (not called), "search", "augment", "done"
    source,     \* edmonds_karp's source
    sink,       \* edmonds_karp's sink
    max_flow,   \* edmonds_karp's running total (its result when pc = "done")
    parent,     \* edmonds_karp's parent map of the last search
    bottleneck, \* edmonds_karp's bottleneck of the last augmentation
    cap0        \* history: the capacities when edmonds_karp was called

fvars == <<capacity, fadj, arcNo, match, pc, source, sink, max_flow, parent,
           bottleneck, cap0>>

\* ------------------------------------------------------------ helpers ----
Range(s) == {s[i] : i \in DOMAIN s}

\* the elements of set S as a list, in iteration order ord
SetToSeq(S, ord) == SelectSeq(ord, LAMBDA x : x \in S)

\* defaultdict(set).__getitem__: a missing key is inserted with an empty set
TouchAdj(a, u) == IF u \in DOMAIN a THEN a ELSE a @@ (u :> {})

\* ... and, a dict keeping insertion order, the new key goes last
TouchOrder(keys, u) == IF u \in Range(keys) THEN keys ELSE Append(keys, u)

\* (mutant) add_edge that records the edge at u only
GraphAddEdgeOneWay(a, u, v) ==
    LET a1 == TouchAdj(a, u)
        a2 == [a1 EXCEPT ![u] = @ \cup {v}]
    IN  TouchAdj(a2, v)

\* Graph.add_edge(u, v) on the adjacency mapping
GraphAddEdgeAdj(a, u, v) ==
    LET a1 == TouchAdj(a, u)
        a2 == [a1 EXCEPT ![u] = @ \cup {v}]
        a3 == TouchAdj(a2, v)
    IN  [a3 EXCEPT ![v] = @ \cup {u}]

\* Graph.add_edge(u, v) on the key order
GraphAddEdgeOrder(keys, u, v) == TouchOrder(TouchOrder(keys, u), v)

\* ------------------------------------------------- bfs_shortest_path ----
\* (mutant) the scan labels a node again each time it is met: only the
\* enqueueing is guarded by "v not in dist"
RECURSIVE BfsScanRelabels(_, _, _)
BfsScanRelabels(nbrs, u, st) ==
    IF nbrs = <<>> THEN st
    ELSE LET v == Head(nbrs)
         IN  IF v \notin DOMAIN st.dist
             THEN BfsScanRelabels(Tail(nbrs), u,
                          [dist   |-> st.dist @@ (v :> st.dist[u] + 1),
                           parent |-> st.parent @@ (v :> u),
                           queue  |-> Append(st.queue, v)])
             ELSE BfsScanRelabels(Tail(nbrs), u,
                          [st EXCEPT !.dist[v] = st.dist[u] + 1, !.parent[v] = u])

\* for v in graph.adj[u]: if v not in dist: ...   (st = [dist, parent, queue])
RECURSIVE BfsScan(_, _, _)
BfsScan(nbrs, u, st) ==
    IF nbrs = <<>> THEN st
    ELSE LET v == Head(nbrs)
         IN  IF v \notin DOMAIN st.dist
             THEN BfsScan(Tail(nbrs), u,
                          [dist   |-> st.dist @@ (v :> st.dist[u] + 1),
                           parent |-> st.parent @@ (v :> u),
                           queue  |-> Append(st.queue, v)])
             ELSE BfsScan(Tail(nbrs), u, st)

\* (mutant) the search pops the newest node: queue.pop() for queue.popleft()
RECURSIVE BfsLoopLifo(_, _, _)
BfsLoopLifo(g, st, ord) ==
    IF st.queue = <<>> THEN [dist |-> st.dist, parent |-> st.parent,
                             adj |-> g.adj, keys |-> g.keys]
    ELSE LET u  == st.queue[Len(st.queue)]
             g1 == [adj |-> TouchAdj(g.adj, u), keys |-> TouchOrder(g.keys, u)]
         IN  BfsLoopLifo(g1,
                     BfsScan(SetToSeq(g1.adj[u], ord), u,
                             [st EXCEPT !.queue = SubSeq(st.queue, 1, Len(st.queue) - 1)]),
                     ord)

\* while queue: u = queue.popleft(); ...   (g = [adj, keys])
RECURSIVE BfsLoop(_, _, _)
BfsLoop(g, st, ord) ==
    IF st.queue = <<>> THEN [dist |-> st.dist, parent |-> st.parent,
                             adj |-> g.adj, keys |-> g.keys]
    ELSE LET u  == Head(st.queue)
             g1 == [adj |-> TouchAdj(g.adj, u), keys |-> TouchOrder(g.keys, u)]
         IN  BfsLoop(g1,
                     BfsScan(SetToSeq(g1.adj[u], ord), u,
                             [st EXCEPT !.queue = Tail(st.queue)]),
                     ord)

bfs_shortest_path(a, keys, src, ord) ==
    BfsLoop([adj |-> a, keys |-> keys],
            [dist |-> (src :> 0), parent |-> (src :> None), queue |-> <<src>>],
            ord)

\* ---------------------------------------------- connected_components ----
\* for v in graph.adj[u]: if v not in visited: ...   (st = [visited, stack])
RECURSIVE CCScan(_, _)
CCScan(nbrs, st) ==
    IF nbrs = <<>> THEN st
    ELSE LET v == Head(nbrs)
         IN  IF v \notin st.visited
             THEN CCScan(Tail(nbrs), [visited |-> st.visited \cup {v},
                                      stack   |-> Append(st.stack, v)])
             ELSE CCScan(Tail(nbrs), st)

\* while stack: u = stack.pop(); component.append(u); ...
\* (every u on the stack is a key of graph.adj, so the read inserts nothing)
RECURSIVE CCInner(_, _, _, _)
CCInner(a, st, component, ord) ==
    IF st.stack = <<>> THEN [visited |-> st.visited, component |-> component]
    ELSE LET n == Len(st.stack)
             u == st.stack[n]
         IN  CCInner(a,
                     CCScan(SetToSeq(a[u], ord),
                            [st EXCEPT !.stack = SubSeq(st.stack, 1, n - 1)]),
                     Append(component, u),
                     ord)

\* (mutant) the loop over the nodes without "if start in visited: continue"
RECURSIVE CCOuterNoSkip(_, _, _, _, _)
CCOuterNoSkip(a, todo, visited, components, ord) ==
    IF todo = <<>> THEN components
    ELSE LET r == CCInner(a, [visited |-> visited \cup {Head(todo)},
                              stack   |-> <<Head(todo)>>], <<>>, ord)
         IN  CCOuterNoSkip(a, Tail(todo), r.visited, Append(components, r.component), ord)

\* for start in graph.nodes(): ...
RECURSIVE CCOuter(_, _, _, _, _)
CCOuter(a, todo, visited, components, ord) ==
    IF todo = <<>> THEN components
    ELSE LET start == Head(todo)
         IN  IF start \in visited
             THEN CCOuter(a, Tail(todo), visited, components, ord)
             ELSE LET r == CCInner(a, [visited |-> visited \cup {start},
                                       stack   |-> <<start>>], <<>>, ord)
                  IN  CCOuter(a, Tail(todo), r.visited,
                              Append(components, r.component), ord)

connected_components(a, keys, ord) == CCOuter(a, keys, {}, <<>>, ord)

\* ------------------------------------------------- degree_centrality ----
degree_centrality(a, keys) == [n \in Range(keys) |-> Cardinality(a[n])]

\* -------------------------------------------------- common_neighbors ----
\* len(graph.adj[u] & graph.adj[v]): both reads go through the defaultdict
common_neighbors(a, keys, u, v) ==
    LET a2 == TouchAdj(TouchAdj(a, u), v)
    IN  [value |-> Cardinality(a2[u] \cap a2[v]),
         adj   |-> a2,
         keys  |-> TouchOrder(TouchOrder(keys, u), v)]

\* --------------------------------------------------- link_prediction ----
\* for j in range(i + 1, len(nodes)): ...
RECURSIVE LPInner(_, _, _, _, _)
LPInner(a, nodes, i, j, scores) ==
    IF j > Len(nodes) THEN scores
    ELSE LET u == nodes[i]
             v == nodes[j]
             s == common_neighbors(a, nodes, u, v).value
         IN  LPInner(a, nodes, i, j + 1,
                     IF v \notin a[u] /\ s > 0
                     THEN Append(scores, <<u, v, s>>)
                     ELSE scores)

\* for i in range(len(nodes)): ...
RECURSIVE LPOuter(_, _, _, _)
LPOuter(a, nodes, i, scores) ==
    IF i > Len(nodes) THEN scores
    ELSE LPOuter(a, nodes, i + 1, LPInner(a, nodes, i, i + 1, scores))

\* (mutant) a sort that is not stable: an entry goes before the entries of
\* its own score
SortInsertBeforeEqual(sorted, e) ==
    LET before == SelectSeq(sorted, LAMBDA x : x[3] > e[3])
        after  == SelectSeq(sorted, LAMBDA x : x[3] <= e[3])
    IN  before \o <<e>> \o after

\* list.sort(key=lambda x: x[2], reverse=True): a stable sort, so an entry goes
\* after every entry already placed whose score is at least its own
SortInsert(sorted, e) ==
    LET before == SelectSeq(sorted, LAMBDA x : x[3] >= e[3])
        after  == SelectSeq(sorted, LAMBDA x : x[3] < e[3])
    IN  before \o <<e>> \o after

RECURSIVE SortByScoreDesc(_)
SortByScoreDesc(s) ==
    IF s = <<>> THEN <<>>
    ELSE SortInsert(SortByScoreDesc(SubSeq(s, 1, Len(s) - 1)), s[Len(s)])

\* scores[:top_k] for top_k >= 0
Prefix(s, k) == SubSeq(s, 1, Min2(k, Len(s)))

link_prediction(a, keys, top_k) ==
    Prefix(SortByScoreDesc(LPOuter(a, keys, 1, <<>>)), top_k)

\* ------------------------------------------------------- FlowNetwork ----
\* network.capacity[u][v]: defaultdict(int) reads 0 under a missing key (the
\* entry such a read inserts holds 0 and is read as 0 before and after)
Cap(c, u, v) == IF <<u, v>> \in DOMAIN c THEN c[<<u, v>>] ELSE 0

\* network.capacity[u][v] = x
CapSet(c, u, v, x) ==
    IF <<u, v>> \in DOMAIN c THEN [c EXCEPT ![<<u, v>>] = x] ELSE c @@ (<<u, v>> :> x)

\* network.adj[u]: defaultdict(list) reads [] under a missing key
FAdj(a, u) == IF u \in DOMAIN a THEN a[u] ELSE <<>>

\* network.adj[u].append(v)
FAdjAppend(a, u, v) ==
    IF u \in DOMAIN a THEN [a EXCEPT ![u] = Append(@, v)] ELSE a @@ (u :> <<v>>)

\* FlowNetwork.add_edge(u, v, cap)   (net = [capacity, adj])
FlowAddEdge(net, u, v, cap) ==
    LET c1 == CapSet(net.capacity, u, v, Cap(net.capacity, u, v) + cap)
        c2 == CapSet(c1, v, u, Cap(c1, v, u) + 0)
    IN  [capacity |-> c2, adj |-> FAdjAppend(FAdjAppend(net.adj, u, v), v, u)]

EmptyNetwork == [capacity |-> <<>>, adj |-> <<>>]

\* ------------------------------------------------------ edmonds_karp ----
\* for v in network.adj[u]: if v not in parent and capacity[u][v] > 0: ...
RECURSIVE EKScan(_, _, _, _)
EKScan(nbrs, u, c, st) ==
    IF nbrs = <<>> THEN st
    ELSE LET v == Head(nbrs)
         IN  IF v \notin DOMAIN st.parent /\ Cap(c, u, v) > 0
             THEN EKScan(Tail(nbrs), u, c,
                         [st EXCEPT !.parent = st.parent @@ (v :> u),
                                    !.queue = Append(st.queue, v)])
             ELSE EKScan(Tail(nbrs), u, c, st)

\* network.adj[u] on the defaultdict(list): a missing key u is inserted with []
FTouchAdj(a, u) == IF u \in DOMAIN a THEN a ELSE a @@ (u :> <<>>)

\* while queue and sink not in parent: u = queue.popleft(); ...
\* st = [parent, queue, adj]: adj is network.adj, which the read of adj[u]
\* extends when u is no key of it
\* (the singleton set binds st2 to the value the scan leaves, so that the next
\* round reads it without evaluating the scan again)
RECURSIVE EKBfs(_, _, _)
EKBfs(c, t, st) ==
    IF st.queue = <<>> \/ t \in DOMAIN st.parent THEN [parent |-> st.parent, adj |-> st.adj]
    ELSE LET u == Head(st.queue)
             a == FTouchAdj(st.adj, u)
         IN  CHOOSE r \in {EKBfs(c, t, st2) :
                              st2 \in {EKScan(FAdj(a, u), u, c,
                                               [st EXCEPT !.queue = Tail(st.queue),
                                                          !.adj = a])}} : TRUE

\* parent = {source: None}; queue = deque([source]); the search
\* (the result: the parent map, and network.adj as the search leaves it)
AugmentingSearch(c, a, s, t) ==
    EKBfs(c, t, [parent |-> (s :> None), queue |-> <<s>>, adj |-> a])

\* (mutant) the bottleneck taken as the largest capacity on the path
FMinTakesLarger(x, y) == IF x = Inf THEN y ELSE IF y = Inf THEN x ELSE IF x >= y THEN x ELSE y

\* min(bottleneck, x) and max_flow + bottleneck, where float('inf') may occur
FMin(x, y) == IF x = Inf THEN y ELSE IF y = Inf THEN x ELSE Min2(x, y)
FAdd(x, y) == IF x = Inf \/ y = Inf THEN Inf ELSE x + y

\* v = sink; while v != source: u = parent[v]; bottleneck = min(...); v = u
RECURSIVE PathBottleneck(_, _, _, _, _)
PathBottleneck(c, par, s, v, b) ==
    IF v = s THEN b
    ELSE PathBottleneck(c, par, s, par[v], FMin(b, Cap(c, par[v], v)))

\* (mutant) the update without the reverse edges: no flow can be cancelled
RECURSIVE ResidualUpdateForwardOnly(_, _, _, _, _)
ResidualUpdateForwardOnly(c, par, s, v, b) ==
    IF v = s THEN c
    ELSE ResidualUpdateForwardOnly(CapSet(c, par[v], v, Cap(c, par[v], v) - b), par, s, par[v], b)

\* v = sink; while v != source: capacity[u][v] -= b; capacity[v][u] += b; v = u
RECURSIVE ResidualUpdate(_, _, _, _, _)
ResidualUpdate(c, par, s, v, b) ==
    IF v = s THEN c
    ELSE LET u  == par[v]
             c1 == CapSet(c, u, v, Cap(c, u, v) - b)
             c2 == CapSet(c1, v, u, Cap(c1, v, u) + b)
         IN  ResidualUpdate(c2, par, s, u, b)

\* -------------------------------------------- build_matching_network ----
\* (mutant) the source edges given the capacity 2
RECURSIVE AddSourceEdgesOfTwo(_, _)
AddSourceEdgesOfTwo(net, left) ==
    IF left = <<>> THEN net
    ELSE AddSourceEdgesOfTwo(FlowAddEdge(net, "SOURCE", Head(left), 2), Tail(left))

RECURSIVE AddSourceEdges(_, _)
AddSourceEdges(net, left) ==
    IF left = <<>> THEN net
    ELSE AddSourceEdges(FlowAddEdge(net, "SOURCE", Head(left), 1), Tail(left))

RECURSIVE AddSinkEdges(_, _)
AddSinkEdges(net, right) ==
    IF right = <<>> THEN net
    ELSE AddSinkEdges(FlowAddEdge(net, Head(right), "SINK", 1), Tail(right))

RECURSIVE AddPairEdges(_, _)
AddPairEdges(net, edges) ==
    IF edges = <<>> THEN net
    ELSE AddPairEdges(FlowAddEdge(net, Head(edges)[1], Head(edges)[2], 1), Tail(edges))

build_matching_network(left, right, edges) ==
    AddPairEdges(AddSinkEdges(AddSourceEdges(EmptyNetwork, left), right), edges)

\* -------------------------------------------------- the flow machine ----
NoMatch == [left |-> <<>>, right |-> <<>>, edges |-> <<>>, built |-> FALSE]

FlowInit ==
    /\ capacity = <<>>
    /\ fadj = <<>>
    /\ arcNo = 0
    /\ match = NoMatch
    /\ pc = "build"
    /\ source = None
    /\ sink = None
    /\ max_flow = 0
    /\ parent = <<>>
    /\ bottleneck = 0
    /\ cap0 = <<>>

\* network.add_edge(u, v, cap), (u, v) a later arc of the pool
AddArc(i, cap) ==
    /\ pc = "build"
    /\ ~match.built
    /\ i > arcNo
    /\ LET net == FlowAddEdge([capacity |-> capacity, adj |-> fadj],
                              ArcPool[i][1], ArcPool[i][2], cap)
       IN  /\ capacity' = net.capacity
           /\ fadj' = net.adj
    /\ arcNo' = i
    /\ UNCHANGED <<match, pc, source, sink, max_flow, parent, bottleneck, cap0, gvars>>

\* a FlowNetwork as constructed: nothing added, edmonds_karp not called
Fresh == pc = "build" /\ ~match.built /\ arcNo = 0

\* network, SOURCE, SINK = build_matching_network(left, right, edges)
BuildMatching(left, right, edges) ==
    /\ Fresh
    /\ LET net == build_matching_network(left, right, edges)
       IN  /\ capacity' = net.capacity
           /\ fadj' = net.adj
    /\ match' = [left |-> left, right |-> right, edges |-> edges, built |-> TRUE]
    /\ UNCHANGED <<arcNo, pc, source, sink, max_flow, parent, bottleneck, cap0, gvars>>

\* edmonds_karp(network, s, t) is called: max_flow = 0
EKStart(s, t) ==
    /\ pc = "build"
    /\ pc' = "search"
    /\ source' = s
    /\ sink' = t
    /\ max_flow' = 0
    /\ cap0' = capacity
    /\ UNCHANGED <<capacity, fadj, arcNo, match, parent, bottleneck, gvars>>

\* one search of the outer loop, to "if sink not in parent: break"
EKSearch ==
    /\ pc = "search"
    /\ LET r == AugmentingSearch(capacity, fadj, source, sink)
       IN  /\ parent' = r.parent
           /\ fadj' = r.adj
    /\ pc' = IF sink \notin DOMAIN parent' THEN "done" ELSE "augment"
    /\ UNCHANGED <<capacity, arcNo, match, source, sink, max_flow, bottleneck, cap0, gvars>>

\* the rest of the loop body: bottleneck, residual update, max_flow += bottleneck
EKAugment ==
    /\ pc = "augment"
    /\ bottleneck' = PathBottleneck(capacity, parent, source, sink, Inf)
    /\ capacity' = ResidualUpdate(capacity, parent, source, sink, bottleneck')
    /\ max_flow' = FAdd(max_flow, bottleneck')
    /\ pc' = "search"
    /\ UNCHANGED <<fadj, arcNo, match, source, sink, parent, cap0, gvars>>

\* the matching problems: sides of at most NumSide nodes, at most MaxPairs pairs
Sides == {SubSeq(LeftNames, 1, n) : n \in 0..NumSide} \X {SubSeq(RightNames, 1, n) : n \in 0..NumSide}
PairLists(left, right) ==
    UNION {[1..n -> Range(left) \X Range(right)] : n \in 0..MaxPairs}

\* ------------------------------------------------- the Graph machine ----
GraphInit ==
    /\ adj = <<>>
    /\ nodeOrder = <<>>
    /\ added = {}
    /\ numCalls = 0
    /\ lineNo = 0
    /\ last = [op |-> "init", arg |-> <<>>, res |-> <<>>]

\* graph.add_edge(u, v)
DoAddEdge(u, v) ==
    /\ adj' = GraphAddEdgeAdj(adj, u, v)
    /\ nodeOrder' = GraphAddEdgeOrder(nodeOrder, u, v)
    /\ added' = added \cup {<<u, v>>}
    /\ numCalls' = numCalls + 1
    /\ last' = [op |-> "add_edge", arg |-> <<u, v>>, res |-> <<>>]

AddEdge(u, v) ==
    /\ numCalls < MaxEdgeCalls
    /\ DoAddEdge(u, v)
    /\ UNCHANGED <<lineNo, fvars>>

Bfs(src, ord) ==
    LET r == bfs_shortest_path(adj, nodeOrder, src, ord)
    IN  /\ adj' = r.adj
        /\ nodeOrder' = r.keys
        /\ last' = [op |-> "bfs", arg |-> <<src>>,
                    res |-> [dist |-> r.dist, parent |-> r.parent]]
        /\ UNCHANGED <<added, numCalls, lineNo, fvars>>

Components(ord) ==
    /\ last' = [op |-> "components", arg |-> <<>>,
                res |-> connected_components(adj, nodeOrder, ord)]
    /\ UNCHANGED <<adj, nodeOrder, added, numCalls, lineNo, fvars>>

Centrality ==
    /\ last' = [op |-> "centrality", arg |-> <<>>,
                res |-> degree_centrality(adj, nodeOrder)]
    /\ UNCHANGED <<adj, nodeOrder, added, numCalls, lineNo, fvars>>

CommonNeighbors(u, v) ==
    LET r == common_neighbors(adj, nodeOrder, u, v)
    IN  /\ adj' = r.adj
        /\ nodeOrder' = r.keys
        /\ last' = [op |-> "common_neighbors", arg |-> <<u, v>>, res |-> r.value]
        /\ UNCHANGED <<added, numCalls, lineNo, fvars>>

LinkPrediction(k) ==
    /\ last' = [op |-> "link_prediction", arg |-> <<k>>,
                res |-> link_prediction(adj, nodeOrder, k)]
    /\ UNCHANGED <<adj, nodeOrder, added, numCalls, lineNo, fvars>>

\* load_facebook_graph, one line of the file: the file is a subsequence of
\* EdgeLines, so the next line read is any later line of it
LoadLine(i) ==
    /\ last.op \in {"init", "add_edge"}
    /\ i > lineNo
    /\ DoAddEdge(EdgeLines[i][1], EdgeLines[i][2])
    /\ lineNo' = i
    /\ UNCHANGED fvars

\* the file is loaded: one analysis is applied to the graph
Loaded == last.op \in {"init", "add_edge"}

\* ----------------------------------------------------- specifications ----
\* Spec: any interleaving of add_edge calls and analyses on one Graph
GraphNext ==
    \/ \E u, v \in Nodes : AddEdge(u, v)
    \/ \E s \in Nodes, ord \in SetOrders(Nodes) : Bfs(s, ord)
    \/ \E ord \in SetOrders(Nodes) : Components(ord)
    \/ Centrality
    \/ \E u, v \in Nodes : CommonNeighbors(u, v)
    \/ \E k \in 0..MaxTopK : LinkPrediction(k)

\* SpecAnalysis: a graph loaded from an edge-list file, then one analysis
AnalysisNext ==
    \/ \E i \in 1..NumLines : LoadLine(i)
    \/ \E s \in FileNodes, ord \in SetOrders(FileNodes) : Loaded /\ Bfs(s, ord)
    \/ \E ord \in SetOrders(FileNodes) : Loaded /\ Components(ord)
    \/ Loaded /\ Centrality
    \/ \E u, v \in FileNodes : Loaded /\ CommonNeighbors(u, v)
    \/ \E k \in 0..MaxTopK : Loaded /\ LinkPrediction(k)

\* SpecFlow: a flow network built by add_edge calls, or a matching network
\* built by build_matching_network, then one call of edmonds_karp: on any two
\* nodes for the former, on the SOURCE and SINK returned for the latter
FlowNext ==
    \/ \E i \in 1..NumArcs, cap \in 0..MaxCap : AddArc(i, cap)
    \/ Fresh /\ \E sd \in Sides : \E edges \in PairLists(sd[1], sd[2]) :
                    BuildMatching(sd[1], sd[2], edges)
    \/ ~match.built /\ \E s, t \in FlowNodes : EKStart(s, t)
    \/ match.built /\ EKStart("SOURCE", "SINK")
    \/ EKSearch
    \/ EKAugment

vars == <<gvars, fvars>>

Init == GraphInit /\ FlowInit
Next == GraphNext
Spec == Init /\ [][Next]_vars
SpecAnalysis == Init /\ [][AnalysisNext]_vars
SpecFlow == Init /\ [][FlowNext]_vars
\* edmonds_karp is one synchronous call: once called, its loop keeps running
SpecFlowFair == SpecFlow /\ WF_vars(EKSearch) /\ WF_vars(EKAugment)

\* ------------------------------------------- what the claims speak of ----
\* the neighbours of x in adjacency mapping a (none when x is no key)
NbrsOf(a, x) == IF x \in DOMAIN a THEN a[x] ELSE {}

\* the nodes joined to a node of S by a path of edges of a
RECURSIVE ReachFrom(_, _)
ReachFrom(a, S) ==
    LET S2 == S \cup UNION {NbrsOf(a, x) : x \in S}
    IN  IF S2 = S THEN S ELSE ReachFrom(a, S2)

\* the nodes at the end of a walk of exactly k edges from s
RECURSIVE WalkEnds(_, _, _)
WalkEnds(a, s, k) ==
    IF k = 0 THEN {s} ELSE UNION {NbrsOf(a, x) : x \in WalkEnds(a, s, k - 1)}

\* the least number of edges on a path from s to v (v reachable from s)
HopCount(a, s, v) ==
    CHOOSE k \in 0..Cardinality(DOMAIN a) :
        /\ v \in WalkEnds(a, s, k)
        /\ \A j \in 0..(k - 1) : v \notin WalkEnds(a, s, j)

\* the adjacency mapping the add_edge calls made so far produce by themselves
AdjOfCalls ==
    [n \in {c[1] : c \in added} \cup {c[2] : c \in added} |->
        {c[2] : c \in {d \in added : d[1] = n}} \cup {c[1] : c \in {d \in added : d[2] = n}}]

\* -------------------------------------------------------------- C3 ----
\* C3: bfs_shortest_path returns a distance map and a parent map whose key
\* sets are both exactly the nodes reachable from the source, with
\* dist[source] = 0 and dist[v] the least number of edges on a path from the
\* source to v; a source without edges yields the single entry {source: 0}.
BfsCoversReachableWithHopCounts ==
    last.op = "bfs" =>
        LET s == last.arg[1]
            dist == last.res.dist
            par == last.res.parent
        IN  /\ DOMAIN dist = ReachFrom(adj, {s})
            /\ DOMAIN par = ReachFrom(adj, {s})
            /\ dist[s] = 0
            /\ \A v \in DOMAIN dist : dist[v] = HopCount(adj, s, v)
            /\ (NbrsOf(adj, s) = {} => dist = (s :> 0))

\* a search that reached a node two edges away, by a self-looped node or
\* not, and left a node of the graph out
BfsWitness ==
    /\ last.op = "bfs"
    /\ \E v \in DOMAIN last.res.dist : last.res.dist[v] = 2
    /\ \E n \in Range(nodeOrder) : n \notin DOMAIN last.res.dist

\* -------------------------------------------------------------- C10 ----
\* C10 as stated: every node of the distance map, the source included, has
\* distance 1 + the least distance of its neighbours that are in the map
\* (read in the claim's favour: a node none of whose neighbours is in the map
\* is exempt).
EveryLabelIsOnePlusMinNeighbour ==
    last.op = "bfs" =>
        LET dist == last.res.dist
        IN  \A v \in DOMAIN dist :
                \/ NbrsOf(adj, v) \cap DOMAIN dist = {}
                \/ \E n \in NbrsOf(adj, v) \cap DOMAIN dist :
                    /\ dist[v] = 1 + dist[n]
                    /\ \A m \in NbrsOf(adj, v) \cap DOMAIN dist : dist[n] <= dist[m]

\* C10 amended: every node of the distance map other than the source has
\* distance 1 + the least distance of its neighbours that are in the map
\* (the source has distance 0).
NonSourceLabelIsOnePlusMinNeighbour ==
    last.op = "bfs" =>
        LET dist == last.res.dist
        IN  /\ dist[last.arg[1]] = 0
            /\ \A v \in DOMAIN dist \ {last.arg[1]} :
                \E n \in NbrsOf(adj, v) \cap DOMAIN dist :
                    /\ dist[v] = 1 + dist[n]
                    /\ \A m \in NbrsOf(adj, v) \cap DOMAIN dist : dist[n] <= dist[m]

\* a search that labelled a node with neighbours at two different distances
LabelWitness ==
    /\ last.op = "bfs"
    /\ \E v \in DOMAIN last.res.dist \ {last.arg[1]} :
        \E n, m \in NbrsOf(adj, v) \cap DOMAIN last.res.dist :
            /\ last.res.dist[n] < last.res.dist[m]
            /\ last.res.dist[v] = 2

\* -------------------------------------------------------------- C4 ----
\* C4: connected_components returns a partition of graph.nodes(): every node
\* is in exactly one component, once; no component is empty; a node and its
\* neighbours share a component; two nodes of one component are joined by a
\* path; the empty graph yields the empty list.
ComponentsPartitionNodes ==
    last.op = "components" =>
        LET comps == last.res
            places(n) == {p \in {<<c, i>> : c \in DOMAIN comps, i \in 1..Cardinality(DOMAIN adj)} :
                            p[2] \in DOMAIN comps[p[1]] /\ comps[p[1]][p[2]] = n}
            compOf(n) == CHOOSE c \in DOMAIN comps : n \in Range(comps[c])
        IN  /\ \A n \in Range(nodeOrder) : Cardinality(places(n)) = 1
            /\ \A c \in DOMAIN comps :
                /\ comps[c] # <<>>
                /\ Range(comps[c]) \subseteq Range(nodeOrder)
                /\ \A u, v \in Range(comps[c]) : v \in ReachFrom(adj, {u})
            /\ \A n \in Range(nodeOrder) : \A m \in adj[n] : compOf(m) = compOf(n)
            /\ (nodeOrder = <<>> => comps = <<>>)

\* two components, one of them of three nodes or more
ComponentsWitness ==
    /\ last.op = "components"
    /\ Len(last.res) = 2
    /\ \E c \in DOMAIN last.res : Len(last.res[c]) >= 3

\* -------------------------------------------------------------- C8 ----
\* the pairs link_prediction scores: (i, j), places in graph.nodes(), i
\* before j, the nodes not adjacent and with a common neighbour
NodeAt(i) == nodeOrder[i]
Common(i, j) == Cardinality(NbrsOf(adj, NodeAt(i)) \cap NbrsOf(adj, NodeAt(j)))
Candidates ==
    {p \in (DOMAIN nodeOrder) \X (DOMAIN nodeOrder) :
        /\ p[1] < p[2]
        /\ NodeAt(p[2]) \notin NbrsOf(adj, NodeAt(p[1]))
        /\ Common(p[1], p[2]) > 0}

\* p comes before q: a higher score, or the same score and enumerated earlier
RanksBefore(p, q) ==
    \/ Common(p[1], p[2]) > Common(q[1], q[2])
    \/ /\ Common(p[1], p[2]) = Common(q[1], q[2])
       /\ (p[1] < q[1] \/ (p[1] = q[1] /\ p[2] < q[2]))

PlaceOf(n) == CHOOSE i \in DOMAIN nodeOrder : nodeOrder[i] = n

\* C8: link_prediction(graph, top_k) is the first top_k entries of the
\* candidate pairs (non-adjacent, a common neighbour, u before v in nodes())
\* with their scores, ordered by score descending and, at equal scores, in
\* enumeration order; no adjacent pair, no score 0 and no pair twice.
LinkPredictionIsTopKOfRanking ==
    last.op = "link_prediction" =>
        LET res == last.res
            k == last.arg[1]
            pairOf(e) == <<PlaceOf(e[1]), PlaceOf(e[2])>>
        IN  /\ Len(res) = Min2(k, Cardinality(Candidates))
            /\ \A x \in DOMAIN res :
                /\ res[x][1] \in Range(nodeOrder)
                /\ res[x][2] \in Range(nodeOrder)
                /\ pairOf(res[x]) \in Candidates
                /\ res[x][3] = Common(pairOf(res[x])[1], pairOf(res[x])[2])
            /\ \A x, y \in DOMAIN res : x < y => RanksBefore(pairOf(res[x]), pairOf(res[y]))
            /\ \A q \in Candidates :
                (\A x \in DOMAIN res : pairOf(res[x]) # q) =>
                    \A x \in DOMAIN res : RanksBefore(pairOf(res[x]), q)

\* a prediction cut to three entries whose best pair was enumerated after a
\* pair of lower score, and with two pairs of equal score
LinkPredictionWitness ==
    /\ last.op = "link_prediction"
    /\ Len(last.res) = 3
    /\ Cardinality(Candidates) > 3
    /\ last.res[1][3] = 2
    /\ last.res[2][3] = 2
    /\ last.res[3][3] = 1
    /\ \E q \in Candidates : Common(q[1], q[2]) = 1 /\ q[1] < PlaceOf(last.res[1][1])

\* -------------------------------------------------------------- C7 ----
\* C7: a Graph is mutated only by add_edge: whatever analyses were called in
\* between, the adjacency mapping is the one the add_edge calls produce and
\* graph.nodes() is the set of nodes named in an add_edge call.
OnlyAddEdgeMutatesGraph ==
    /\ adj = AdjOfCalls
    /\ Range(nodeOrder) = {c[1] : c \in added} \cup {c[2] : c \in added}

\* -------------------------------------------------------------- C9 ----
EdgeSymmetric == \A u \in DOMAIN adj : \A v \in adj[u] : v \in DOMAIN adj /\ u \in adj[v]

\* an add_edge call that repeats an earlier one, in either direction
RepeatedAddEdge ==
    /\ numCalls' = numCalls + 1
    /\ (last'.arg \in added \/ <<last'.arg[2], last'.arg[1]>> \in added)

\* C9: v is in adjacency(u) exactly when u is in adjacency(v), in every state;
\* and an add_edge call that repeats an earlier one (in either direction)
\* leaves the adjacency mapping, and so degree_centrality, unchanged.
SymmetricAndRepeatIsNoOp ==
    /\ []EdgeSymmetric
    /\ [][RepeatedAddEdge =>
            /\ adj' = adj
            /\ nodeOrder' = nodeOrder
            /\ degree_centrality(adj', nodeOrder') = degree_centrality(adj, nodeOrder)]_vars

\* an edge added, then added reversed, then added again; and a self-loop
RepeatWitness ==
    /\ last.op = "add_edge"
    /\ numCalls = 3
    /\ \E u, v \in Nodes : u # v /\ added = {<<u, v>>, <<v, u>>} /\ adj[u] = {v}

\* ------------------------------------------ flows: what the claims speak of ----
RECURSIVE SumCap(_, _)
SumCap(c, P) ==
    IF P = {} THEN 0
    ELSE LET p == CHOOSE q \in P : TRUE
         IN  c[p] + SumCap(c, P \ {p})

\* the nodes of a network with capacities c, with s and t
NetNodes(c, s, t) == {p[1] : p \in DOMAIN c} \cup {p[2] : p \in DOMAIN c} \cup {s, t}

\* the capacity of the cut (S, rest): of the edges leaving S
CutCap(c, S) == SumCap(c, {p \in DOMAIN c : p[1] \in S /\ p[2] \notin S})

\* the cuts that separate s from t
Cuts(c, s, t) == {S \in SUBSET NetNodes(c, s, t) : s \in S /\ t \notin S}

\* the minimum s-t cut capacity, which is the maximum s-t flow value
MinCut(c, s, t) ==
    CHOOSE m \in {CutCap(c, S) : S \in Cuts(c, s, t)} :
        \A S \in Cuts(c, s, t) : m <= CutCap(c, S)

\* the nodes reachable from the nodes of S through edges of positive capacity
RECURSIVE PositiveReach(_, _)
PositiveReach(c, S) ==
    LET S2 == S \cup {p[2] : p \in {q \in DOMAIN c : q[1] \in S /\ c[q] > 0}}
    IN  IF S2 = S THEN S ELSE PositiveReach(c, S2)

\* the edges (parent[v], v) of the path the parent map holds from s to v
RECURSIVE PathEdges(_, _, _)
PathEdges(par, s, v) ==
    IF v = s THEN {} ELSE {<<par[v], v>>} \cup PathEdges(par, s, par[v])

Called == pc \in {"search", "augment", "done"}

\* -------------------------------------------------------------- C1 ----
\* C1: for source # sink, edmonds_karp returns the maximum flow value of the
\* network as it was before the call, i.e. its minimum source-sink cut
\* capacity; the value never exceeds the capacity leaving the source, and it
\* is 0 when no path of positive-capacity edges leads to the sink.
ReturnsMaximumFlow ==
    (pc = "done" /\ source # sink) =>
        /\ max_flow = MinCut(cap0, source, sink)
        /\ max_flow <= CutCap(cap0, {source})
        /\ (sink \notin PositiveReach(cap0, {source}) => max_flow = 0)

\* a returned flow of 2 or more that is less than the capacity leaving the
\* source, on a network built by add_edge calls
MaxFlowWitness ==
    /\ pc = "done"
    /\ source # sink
    /\ ~match.built
    /\ max_flow >= 2
    /\ max_flow < CutCap(cap0, {source})

\* -------------------------------------------------------------- C2 ----
\* C2: edmonds_karp terminates on every input, whatever source and sink are:
\* once called, it reaches the 'no augmenting path' exit.
EdmondsKarpTerminates == (pc = "search") ~> (pc = "done")

\* -------------------------------------------------------------- C5 ----
IsMatching(M) ==
    \A p, q \in M : p # q => (p[1] # q[1] /\ p[2] # q[2])

\* the size of a maximum matching under the permissible pairs E
MaxMatchingSize(E) ==
    CHOOSE n \in 0..Cardinality(E) :
        /\ \E M \in SUBSET E : IsMatching(M) /\ Cardinality(M) = n
        /\ \A M \in SUBSET E : IsMatching(M) => Cardinality(M) <= n

\* C5: edmonds_karp on the network, source and sink build_matching_network
\* returns yields the size of a maximum bipartite matching under the
\* permissible pairs; with no permissible pair it yields 0.
MatchingNetworkYieldsMaxMatching ==
    (pc = "done" /\ match.built) =>
        /\ max_flow = MaxMatchingSize(Range(match.edges))
        /\ (match.edges = <<>> => max_flow = 0)

\* a maximum matching of 2 found although the first path took the pair the
\* second left node needed: flow was cancelled on a reverse edge
MatchingWitness ==
    /\ pc = "done"
    /\ match.built
    /\ max_flow = 2
    /\ \E p \in Range(match.edges) : capacity[p] = 1 /\ cap0[p] = 1 /\ capacity[<<p[2], p[1]>>] = 0
    /\ Cardinality(Range(match.edges)) = 3

\* -------------------------------------------------------------- C6 ----
AllPairs == DOMAIN capacity \cup DOMAIN cap0

ResidualsConserved ==
    (Called /\ source # sink) =>
        \A p \in AllPairs :
            /\ Cap(capacity, p[1], p[2]) >= 0
            /\ Cap(capacity, p[1], p[2]) + Cap(capacity, p[2], p[1])
                 = Cap(cap0, p[1], p[2]) + Cap(cap0, p[2], p[1])

\* one augmentation: the bottleneck is an integer >= 1; the edges of the path
\* found lose it, their reverse edges gain it, every other capacity stays
AugmentsAlongPath ==
    (pc = "augment" /\ pc' = "search" /\ source # sink) =>
        LET path == PathEdges(parent, source, sink)
            b == bottleneck'
        IN  /\ b # Inf
            /\ b >= 1
            /\ path # {}
            /\ DOMAIN capacity' = DOMAIN capacity
            /\ \A p \in DOMAIN capacity :
                capacity'[p] = IF p \in path THEN capacity[p] - b
                               ELSE IF <<p[2], p[1]>> \in path THEN capacity[p] + b
                               ELSE capacity[p]
            /\ max_flow' = max_flow + b

\* C6: with source # sink, between augmentations every capacity is >= 0 and
\* capacity(u,v) + capacity(v,u) is what it was before the call; each
\* augmentation lowers capacity(u,v) and raises capacity(v,u) by the same
\* bottleneck, a finite integer >= 1, on the edges of the path found only.
ResidualBookkeeping == []ResidualsConserved /\ [][AugmentsAlongPath]_vars

\* after an augmentation by a bottleneck of 2 along a path of two edges
ResidualWitness ==
    /\ pc = "search"
    /\ source # sink
    /\ bottleneck = 2
    /\ max_flow >= 3
    /\ Cardinality(PathEdges(parent, source, sink)) = 2

=============================================================================
